---- MODULE Spec2Model ----
(***************************************************************************)
(* Model of src/inelastic_collision/main.cpp: the Simulation class (a      *)
(* one-dimensional, perfectly inelastic two-body collision) and the event  *)
(* loop of main() that drives it.                                          *)
(*                                                                         *)
(* Particle fields and dt are C++ `float`.  A float is modelled as a       *)
(* record [m, e] that stands for the number m * 2^e, with |m| < 2^24 and   *)
(* m odd (or m = 0, e = 0), and every arithmetic operation rounds to the   *)
(* nearest such number, ties to even, as IEEE-754 binary32 does; a product *)
(* and the sum that uses it are rounded one after the other.  The exponent *)
(* is not bounded: infinities, NaN, subnormals and the sign of zero are    *)
(* outside the model, and the inputs are chosen far from them.             *)
(***************************************************************************)
EXTENDS Integers, Sequences, FiniteSets, TLC

----------------------------------------------------------------------------
(* binary32 arithmetic *)

MantBits == 24

Abs(x) == IF x < 0 THEN -x ELSE x

Sign(x) == IF x < 0 THEN -1 ELSE 1

RECURSIVE Pow2(_)
Pow2(n) == IF n <= 0 THEN 1 ELSE 2 * Pow2(n - 1)

RECURSIVE BitLen(_)
BitLen(n) == IF n <= 0 THEN 0 ELSE 1 + BitLen(n \div 2)

\* the canonical record of the number m * 2^e, for an m that needs no rounding
RECURSIVE Norm(_, _)
Norm(m, e) ==
    IF m = 0 THEN [m |-> 0, e |-> 0]
    ELSE IF m % 2 = 0 THEN Norm(m \div 2, e + 1)
    ELSE [m |-> m, e |-> e]

\* the float nearest to the integer m times 2^e, ties to even
RoundNE(m, e) ==
    LET a == Abs(m)
        s == BitLen(a) - MantBits
    IN  IF s <= 0 THEN Norm(m, e)
        ELSE LET q  == a \div Pow2(s)
                 r  == a % Pow2(s)
                 h  == Pow2(s - 1)
                 up == r > h \/ (r = h /\ q % 2 = 1)
             IN  Norm(Sign(m) * (IF up THEN q + 1 ELSE q), e + s)

F(n) == Norm(n, 0)

Half == Norm(1, -1)

Top(a) == a.e + BitLen(Abs(a.m))

FNeg(a) == [m |-> -a.m, e |-> a.e]

\* a * b, rounded once.  A product of two long significands is formed in
\* two 24-bit halves; the bits below the kept ones are folded into a sticky bit.
FMul(a, b) ==
    LET A == Abs(a.m)
        B == Abs(b.m)
        sg == Sign(a.m) * Sign(b.m)
    IN  IF BitLen(A) + BitLen(B) <= 31 THEN RoundNE(a.m * b.m, a.e + b.e)
        ELSE LET ah == A \div 4096
                 al == A % 4096
                 bh == B \div 4096
                 bl == B % 4096
                 mid == ah * bl + al * bh
                 low == (mid % 4096) * 4096 + al * bl
                 H == ah * bh + (mid \div 4096) + (low \div 16777216)
                 L == low % 16777216
                 k == 27 - BitLen(H)
                 W == H * Pow2(k) + (L \div Pow2(24 - k))
                 st == IF L % Pow2(24 - k) = 0 THEN 0 ELSE 1
             IN  RoundNE(sg * (2 * W + st), a.e + b.e + 24 - k - 1)

\* a + b, rounded once.  The operand of larger magnitude is aligned to 28
\* bits; what the other operand has below that window becomes a sticky bit.
FAdd(a, b) ==
    IF a.m = 0 THEN b
    ELSE IF b.m = 0 THEN a
    ELSE LET big == IF Top(a) >= Top(b) THEN a ELSE b
             sml == IF Top(a) >= Top(b) THEN b ELSE a
             ew  == Top(big) - 28
             Bg  == big.m * Pow2(big.e - ew)
             sh  == sml.e - ew
             S   == Abs(sml.m)
             q   == IF sh >= 0 THEN S * Pow2(sh)
                    ELSE IF -sh > MantBits THEN 0
                    ELSE S \div Pow2(-sh)
             st  == IF sh >= 0 THEN 0
                    ELSE IF -sh > MantBits THEN 1
                    ELSE IF S % Pow2(-sh) = 0 THEN 0 ELSE 1
         IN  RoundNE(2 * (Bg + Sign(sml.m) * q) + Sign(sml.m) * st, ew - 1)

\* long division: quotient bits are produced until 26 are there
RECURSIVE LongDiv(_, _, _, _)
LongDiv(q, r, B, k) ==
    IF BitLen(q) >= MantBits + 2 THEN [q |-> q, r |-> r, k |-> k]
    ELSE IF 2 * r >= B THEN LongDiv(2 * q + 1, 2 * r - B, B, k + 1)
    ELSE LongDiv(2 * q, 2 * r, B, k + 1)

\* a / b for b # 0, rounded once
FDiv(a, b) ==
    IF a.m = 0 THEN a
    ELSE LET A == Abs(a.m)
             B == Abs(b.m)
             d == LongDiv(A \div B, A % B, B, 0)
             st == IF d.r = 0 THEN 0 ELSE 1
         IN  RoundNE(Sign(a.m) * Sign(b.m) * (2 * d.q + st), a.e - b.e - d.k - 1)

\* a >= b
FGe(a, b) == FAdd(a, FNeg(b)).m >= 0

----------------------------------------------------------------------------
(* bounds and input sets *)

MaxPos == 2
MaxUpdates == 3
MaxParticles == 3
MaxElapsed == 3

Particle(m, v, x) == [mass |-> F(m), velocity |-> F(v), x_pos |-> F(x)]

\* main(): p1, p2
ScenarioA == << Particle(5, 10, 0), Particle(2, 0, 20) >>

\* two particles at rest, ten apart
ScenarioC == << Particle(1, 0, 0), Particle(1, 0, 10) >>

\* equal velocities, one apart, where the spacing of binary32 values becomes 2
BigPair == << Particle(1, 1, 16777215), Particle(1, 1, 16777216) >>

\* the same two places, the particles moving away from each other
BigApart == << Particle(1, -1, 16777215), Particle(1, 1, 16777216) >>

Masses == { 1, 2 }

Velocities == { -1, 0, 1 }

\* the arguments of setInitial: two particles of positive mass, the first of
\* mass 1 at position 1, the second behind it, on it or ahead of it
Configs ==
    { << Particle(1, v1, 1), Particle(m2, v2, x2) >> :
        v1 \in Velocities, m2 \in Masses, v2 \in Velocities, x2 \in 0..MaxPos }
        \cup { ScenarioA, ScenarioC, BigPair, BigApart }

\* the arguments of addParticle
AddParticles == { Particle(2, -1, 0) }

\* the arguments of update: 0, 1/2 and 1 second
Dts == { F(0), Half, F(1) }

\* the length of one clock tick of the driver, in seconds
TickSeconds == Half

\* the ticks one pass of the event loop may take (drawing, the frame limit)
FrameTicks == { 1, 2 }

\* updates that bring every approaching pair of Configs together:
\* a gap of at most 20 at speed 10, or of at most MaxPos at speed 1, in
\* steps of half a second, and one update more
LiveMaxUpdates == 2 * MaxPos + 3

----------------------------------------------------------------------------
(* class Simulation *)

VARIABLES
    particles,      \* Simulation::particles
    initial,        \* Simulation::initial
    hasCollided,    \* Simulation::hasCollided
    call,           \* the last operation called on the Simulation
    config,         \* the argument of the most recent setInitial
    nUpdates,       \* update calls since the last setInitial or reset
    pc,             \* main(): position in the program
    playing,        \* main(): playing
    open,           \* main(): window.isOpen()
    elapsed,        \* main(): ticks on sf::Clock since its last restart
    playTicks,      \* ticks that went by while playing, since the last reset
    simTicks        \* ticks passed to update as dt, since the last reset

simVars == << particles, initial, hasCollided >>

histVars == << call, config, nUpdates >>

mainVars == << pc, playing, open, elapsed, playTicks, simTicks >>

vars == << particles, initial, hasCollided, call, config, nUpdates,
           pc, playing, open, elapsed, playTicks, simTicks >>

Sim == [particles |-> particles, initial |-> initial, hasCollided |-> hasCollided]

kineticEnergy(p) == FMul(FMul(FMul(Half, p.mass), p.velocity), p.velocity)

totalKineticEnergy(a, b) == FAdd(kineticEnergy(a), kineticEnergy(b))

\* a faulty handleCollision: the mean of the two velocities, masses ignored
handleCollision_mean(p1, p2) == FMul(Half, FAdd(p1.velocity, p2.velocity))

\* a faulty handleCollision: the momentum is divided by the first mass alone
handleCollision_firstMass(p1, p2) ==
    FDiv(FAdd(FMul(p1.mass, p1.velocity), FMul(p2.mass, p2.velocity)), p1.mass)

handleCollision(p1, p2) ==
    LET init_momentum == FAdd(FMul(p1.mass, p1.velocity), FMul(p2.mass, p2.velocity))
        final_velocity == FDiv(init_momentum, FAdd(p1.mass, p2.mass))
    IN  final_velocity

\* a faulty advance: the velocity is advanced along with the position
advance_velocityToo(ps, dt) ==
    [i \in 1..Len(ps) |->
        [ps[i] EXCEPT !.x_pos = FAdd(ps[i].x_pos, FMul(ps[i].velocity, dt)),
                      !.velocity = FAdd(ps[i].velocity, FMul(ps[i].velocity, dt))]]

\* a faulty advance: only the first particle is moved
advance_onlyFirst(ps, dt) ==
    [i \in 1..Len(ps) |->
        IF i = 1
        THEN [ps[i] EXCEPT !.x_pos = FAdd(ps[i].x_pos, FMul(ps[i].velocity, dt))]
        ELSE ps[i]]

\* the loop of update: every particle moves by velocity * dt
advance(ps, dt) ==
    [i \in 1..Len(ps) |->
        [ps[i] EXCEPT !.x_pos = FAdd(ps[i].x_pos, FMul(ps[i].velocity, dt))]]

\* a faulty detect: the collided flag is not consulted
detect_noFlag(s, ps) ==
    /\ Len(ps) >= 2
    /\ FGe(ps[1].x_pos, ps[2].x_pos)

\* a faulty detect: the two positions are compared the wrong way round
detect_swapped(s, ps) ==
    /\ Len(ps) >= 2
    /\ ~s.hasCollided
    /\ FGe(ps[2].x_pos, ps[1].x_pos)

\* the test of update: the first particle has reached or passed the second
detect(s, ps) ==
    /\ Len(ps) >= 2
    /\ ~s.hasCollided
    /\ FGe(ps[1].x_pos, ps[2].x_pos)

\* a faulty combine: the second mass is subtracted
combine_massDifference(p1, p2) ==
    [mass     |-> FAdd(p1.mass, FNeg(p2.mass)),
     velocity |-> handleCollision(p1, p2),
     x_pos    |-> FMul(Half, FAdd(p1.x_pos, p2.x_pos))]

\* a faulty combine: the combined particle is put where the first one is
combine_firstPos(p1, p2) ==
    [mass     |-> FAdd(p1.mass, p2.mass),
     velocity |-> handleCollision(p1, p2),
     x_pos    |-> p1.x_pos]

\* the particle that replaces the whole sequence
combine(p1, p2) ==
    [mass     |-> FAdd(p1.mass, p2.mass),
     velocity |-> handleCollision(p1, p2),
     x_pos    |-> FMul(Half, FAdd(p1.x_pos, p2.x_pos))]

\* a faulty update: the sequence is cleared and the combined particle is lost
update_noPush(s, dt) ==
    LET ps == advance(s.particles, dt)
    IN  IF detect(s, ps)
        THEN [s EXCEPT !.particles = << >>, !.hasCollided = TRUE]
        ELSE [s EXCEPT !.particles = ps]

\* a faulty update: the snapshot moves with the particles
update_movesInitial(s, dt) ==
    LET ps == advance(s.particles, dt)
    IN  IF detect(s, ps)
        THEN [s EXCEPT !.particles = << combine(ps[1], ps[2]) >>,
                       !.hasCollided = TRUE,
                       !.initial = advance(s.initial, dt)]
        ELSE [s EXCEPT !.particles = ps, !.initial = advance(s.initial, dt)]

\* a faulty update: the collision test is made before the particles move
update_detectFirst(s, dt) ==
    LET ps == advance(s.particles, dt)
    IN  IF detect(s, s.particles)
        THEN [s EXCEPT !.particles = << combine(ps[1], ps[2]) >>,
                       !.hasCollided = TRUE]
        ELSE [s EXCEPT !.particles = ps]

update(s, dt) ==
    LET ps == advance(s.particles, dt)
    IN  IF detect(s, ps)
        THEN [s EXCEPT !.particles = << combine(ps[1], ps[2]) >>,
                       !.hasCollided = TRUE]
        ELSE [s EXCEPT !.particles = ps]

\* a faulty reset: the collided flag is left as it is
reset_keepsFlag(s) == [s EXCEPT !.particles = s.initial]

reset(s) == [s EXCEPT !.particles = s.initial, !.hasCollided = FALSE]

\* a faulty setInitial: the collided flag is left as it is
setInitial_keepsFlag(s, init) == [s EXCEPT !.initial = init, !.particles = init]

setInitial(s, init) ==
    [s EXCEPT !.initial = init, !.particles = init, !.hasCollided = FALSE]

addParticle(s, p) == [s EXCEPT !.particles = Append(s.particles, p)]

getParticles(s) == s.particles

\* the members of the Simulation become those of s
Becomes(s) ==
    /\ particles' = s.particles
    /\ initial' = s.initial
    /\ hasCollided' = s.hasCollided

Init ==
    /\ particles = << >>
    /\ initial = << >>
    /\ hasCollided = FALSE
    /\ call = "new"
    /\ config = << >>
    /\ nUpdates = 0
    /\ pc = "start"
    /\ playing = TRUE
    /\ open = TRUE
    /\ elapsed = 0
    /\ playTicks = 0
    /\ simTicks = 0

AddParticle ==
    \E p \in AddParticles :
        /\ Len(particles) < MaxParticles
        /\ Becomes(addParticle(Sim, p))
        /\ call' = "addParticle"
        /\ UNCHANGED << config, nUpdates, mainVars >>

Reset ==
    /\ Becomes(reset(Sim))
    /\ call' = "reset"
    /\ nUpdates' = 0
    /\ UNCHANGED << config, mainVars >>

SetInitial ==
    \E init \in Configs :
        /\ Becomes(setInitial(Sim, init))
        /\ call' = "setInitial"
        /\ config' = init
        /\ nUpdates' = 0
        /\ UNCHANGED mainVars

Update ==
    \E dt \in Dts :
        /\ nUpdates < MaxUpdates
        /\ Becomes(update(Sim, dt))
        /\ call' = "update"
        /\ nUpdates' = nUpdates + 1
        /\ UNCHANGED << config, mainVars >>

GetParticles ==
    /\ call' = "getParticles"
    /\ UNCHANGED << simVars, config, nUpdates, mainVars >>

Next == AddParticle \/ Reset \/ SetInitial \/ Update \/ GetParticles

Spec == Init /\ [][Next]_vars

----------------------------------------------------------------------------
(* setInitial, update, reset and getParticles alone: no addParticle *)

CoreNext == Reset \/ SetInitial \/ Update \/ GetParticles

CoreSpec == Init /\ [][CoreNext]_vars

----------------------------------------------------------------------------
(* repeated update(dt) with dt > 0 after one setInitial *)

SetInitialOnce ==
    /\ call = "new"
    /\ SetInitial

UpdatePositive ==
    \E dt \in Dts \ { F(0) } :
        /\ call # "new"
        /\ nUpdates < LiveMaxUpdates
        /\ Becomes(update(Sim, dt))
        /\ call' = "update"
        /\ nUpdates' = nUpdates + 1
        /\ UNCHANGED << config, mainVars >>

LiveNext == SetInitialOnce \/ UpdatePositive

\* one more update has been called; enabled exactly when UpdatePositive is,
\* and the steps of LiveNext that satisfy it are the UpdatePositive steps
UpdateCalled ==
    /\ call # "new"
    /\ nUpdates < LiveMaxUpdates
    /\ nUpdates' = nUpdates + 1

\* the caller keeps calling update
LiveSpec == Init /\ [][LiveNext]_vars /\ WF_nUpdates(UpdateCalled)

----------------------------------------------------------------------------
(* main(): the event loop *)

\* lines 74-89: the scenario is installed, the window and the clock are created
MainStart ==
    /\ pc = "start"
    /\ Becomes(setInitial(Sim, ScenarioA))
    /\ call' = "setInitial"
    /\ config' = ScenarioA
    /\ nUpdates' = 0
    /\ playing' = TRUE
    /\ open' = TRUE
    /\ elapsed' = 0
    /\ pc' = "poll"
    /\ UNCHANGED << playTicks, simTicks >>

\* sf::Event::Closed
PollClosed ==
    /\ pc = "poll"
    /\ open
    /\ open' = FALSE
    /\ UNCHANGED << simVars, histVars, pc, playing, elapsed, playTicks, simTicks >>

\* KeyPressed, Scancode::Space
PollSpace ==
    /\ pc = "poll"
    /\ open
    /\ playing' = ~playing
    /\ UNCHANGED << simVars, histVars, pc, open, elapsed, playTicks, simTicks >>

\* KeyPressed, Scancode::R
PollR ==
    /\ pc = "poll"
    /\ open
    /\ Becomes(reset(Sim))
    /\ call' = "reset"
    /\ nUpdates' = 0
    /\ elapsed' = 0
    /\ playTicks' = 0
    /\ simTicks' = 0
    /\ UNCHANGED << config, pc, playing, open >>

\* the dt of line 113
frameDt(isPlaying, ticks) == IF isPlaying THEN FMul(F(ticks), TickSeconds) ELSE F(0)

\* what clock.restart() of line 113 leaves on the clock
frameClock(isPlaying, ticks) == IF isPlaying THEN 0 ELSE ticks

\* lines 113-138, once no event is pending: dt is taken from the clock, the
\* simulation is updated when playing, the frame is drawn and shown
Frame ==
    \E d \in FrameTicks :
        /\ pc = "poll"
        /\ playing => nUpdates < MaxUpdates
        /\ frameClock(playing, elapsed) + d <= MaxElapsed
        /\ IF playing
           THEN /\ Becomes(update(Sim, frameDt(playing, elapsed)))
                /\ call' = "update"
                /\ nUpdates' = nUpdates + 1
                /\ simTicks' = simTicks + elapsed
                /\ playTicks' = playTicks + d
           ELSE UNCHANGED << simVars, call, nUpdates, simTicks, playTicks >>
        /\ elapsed' = frameClock(playing, elapsed) + d
        /\ pc' = IF open THEN "poll" ELSE "done"
        /\ UNCHANGED << config, playing, open >>

MainNext == MainStart \/ PollClosed \/ PollSpace \/ PollR \/ Frame

MainSpec == Init /\ [][MainNext]_vars

----------------------------------------------------------------------------
(* what the properties are stated with *)

\* the integer a float holds (masses and velocities of Configs are integers)
IntOf(f) == f.m * Pow2(f.e)

\* the float V is within half a unit of its last place of num / den (den > 0):
\* V is what a correctly rounded division of num by den gives
NearestTo(V, num, den) ==
    IF V.m = 0 THEN num = 0
    ELSE LET L  == BitLen(Abs(V.m))
             sh == MantBits + 1 - L - V.e
         IN  IF sh >= 0
             THEN Abs(den * V.m * Pow2(MantBits + 1 - L) - num * Pow2(sh)) <= den
             ELSE Abs(den * V.m * Pow2(V.e) - num) <= den * Pow2(-sh)

Momentum(p1, p2) ==
    IntOf(p1.mass) * IntOf(p1.velocity) + IntOf(p2.mass) * IntOf(p2.velocity)

MassSum(p1, p2) == IntOf(p1.mass) + IntOf(p2.mass)

\* this step is an update call in which the merge fires
MergeStep == call' = "update" /\ ~hasCollided /\ hasCollided'

\* the first particle of c is to the left of the second
LeftOf(c) == ~FGe(c[1].x_pos, c[2].x_pos)

Approaching(c) == LeftOf(c) /\ ~FGe(c[2].velocity, c[1].velocity)

NonApproaching(c) == LeftOf(c) /\ FGe(c[2].velocity, c[1].velocity)

\* neither particle moves toward the other
MovingApart(c) ==
    LeftOf(c) /\ FGe(F(0), c[1].velocity) /\ FGe(c[2].velocity, F(0))

----------------------------------------------------------------------------
(* properties *)

\* C1: in the update call in which two particles merge, the one resulting
\* particle has mass m1 + m2 and the velocity (m1*v1 + m2*v2)/(m1 + m2) as
\* binary32 division rounds it, so that m_combined * v_combined differs from
\* m1*v1 + m2*v2 by at most m_combined times half a unit in the last place
\* of the velocity.
C1_MomentumConserved ==
    [][(MergeStep /\ Len(particles) = 2) =>
        /\ Len(particles') = 1
        /\ particles'[1].mass = F(MassSum(particles[1], particles[2]))
        /\ NearestTo(particles'[1].velocity,
                     Momentum(particles[1], particles[2]),
                     MassSum(particles[1], particles[2]))]_vars

\* C1 witness: Scenario A has merged in its second update; 50/7 is no
\* binary32 value and the velocity is the nearest one, 14979657 * 2^-21
C1_Witness ==
    /\ config = ScenarioA
    /\ call = "update"
    /\ nUpdates = 2
    /\ hasCollided
    /\ Len(particles) = 1
    /\ particles[1].velocity = [m |-> 14979657, e |-> -21]

\* C2: update(0) leaves the particle count, every particle and the collided
\* flag unchanged, in every state.
C2_ZeroDtNoOp == update(Sim, F(0)) = Sim

\* C3: after a setInitial(c), reset() leaves the particles equal to c, two of
\* them, with collided false, whatever update calls went before.
C3_ResetRestores ==
    (call = "reset" /\ config # << >>) =>
        /\ particles = config
        /\ Len(particles) = 2
        /\ ~hasCollided

\* C3 witness: reset has just run on Scenario A
C3_Witness ==
    /\ call = "reset"
    /\ config = ScenarioA
    /\ particles = ScenarioA
    /\ ~hasCollided

C5_AtMostOnce ==
    [][(hasCollided /\ call' = "update") =>
        /\ hasCollided'
        /\ Len(particles') = Len(particles)
        /\ \A i \in 1..Len(particles) :
              /\ particles'[i].mass = particles[i].mass
              /\ particles'[i].velocity = particles[i].velocity]_vars

\* C5 witness: a pair installed on the same spot merged in the first update
\* and a second update has run on the merged particle
C5_Witness ==
    /\ config = << Particle(1, 0, 1), Particle(1, 0, 1) >>
    /\ call = "update"
    /\ nUpdates = 2
    /\ hasCollided
    /\ Len(particles) = 1

C7_NonApproachingNeverCollides ==
    (config # << >> /\ NonApproaching(config)) =>
        (Len(particles) = 2 /\ ~hasCollided)

\* C7, amended: a pair installed with position[0] < position[1] and
\* velocity[0] <= 0 <= velocity[1] (both at rest, as in Scenario C, or moving
\* apart) is still two uncollided particles after any number of
\* update(dt > 0) calls.
C7_MovingApartNeverCollides ==
    (config # << >> /\ MovingApart(config)) =>
        (Len(particles) = 2 /\ ~hasCollided)

\* C7 witness: Scenario C after as many positive updates as the model makes
C7_Witness ==
    /\ config = ScenarioC
    /\ call = "update"
    /\ nUpdates = LiveMaxUpdates
    /\ Len(particles) = 2
    /\ ~hasCollided

\* the distance between the two particles of c, and the speed at which the
\* first gains on the second
Gap(c) == IntOf(c[2].x_pos) - IntOf(c[1].x_pos)

Closing(c) == IntOf(c[1].velocity) - IntOf(c[2].velocity)

\* an approaching pair has been installed
ApproachingInstalled == IF config = << >> THEN FALSE ELSE Approaching(config)

\* the merge has happened and left the one particle C8 describes
Merged ==
    IF config = << >> \/ Len(particles) # 1 THEN FALSE
    ELSE
    /\ hasCollided
    /\ particles[1].mass = F(MassSum(config[1], config[2]))
    /\ NearestTo(particles[1].velocity,
                 Momentum(config[1], config[2]), MassSum(config[1], config[2]))
    /\ config = ScenarioA =>
          /\ particles[1].mass = F(7)
          /\ NearestTo(particles[1].velocity, 50, 7)

C10_DtOnlyWhilePlaying == simTicks <= playTicks

\* where update(dt) puts a particle before it tests for the collision
Moved(p, dt) == FAdd(p.x_pos, FMul(p.velocity, dt))

\* two particles, not yet collided
TwoBody == Len(particles) = 2 /\ ~hasCollided

\* C11: an update call made in any state other than two particles with
\* collided false (no particle, one, more than two, or collided true) keeps
\* the particle count and the collided flag: nothing is removed or combined.
C11_DetectorOnlyForTwo ==
    [][(call' = "update" /\ ~TwoBody) =>
        /\ Len(particles') = Len(particles)
        /\ hasCollided' = hasCollided]_vars

\* C12: in update(dt) on two uncollided particles the merge fires exactly
\* when the positions, each advanced by velocity * dt, satisfy
\* position[0] >= position[1].
C12_DetectionRule ==
    TwoBody =>
        \A dt \in Dts :
            update(Sim, dt).hasCollided
                <=> FGe(Moved(particles[1], dt), Moved(particles[2], dt))

\* C12 witness: the two particles, one apart and closing at 2 per second,
\* have met at 3/2 in an update of half a second
C12_Witness ==
    /\ config = << Particle(1, 1, 1), Particle(1, -1, 2) >>
    /\ call = "update"
    /\ nUpdates = 1
    /\ hasCollided
    /\ particles[1].x_pos = [m |-> 3, e |-> -1]

\* C13: when the merge fires on two particles, update(dt) leaves one particle
\* whose mass is m1 + m2 and whose position is the midpoint of the two
\* advanced positions (twice it is their float sum), and collided is true.
C13_ResolverResult ==
    TwoBody =>
        \A dt \in Dts :
            LET x1 == Moved(particles[1], dt)
                x2 == Moved(particles[2], dt)
                s2 == update(Sim, dt)
            IN  FGe(x1, x2) =>
                    /\ s2.hasCollided
                    /\ Len(s2.particles) = 1
                    /\ s2.particles[1].mass
                          = F(MassSum(particles[1], particles[2]))
                    /\ FAdd(s2.particles[1].x_pos, s2.particles[1].x_pos)
                          = FAdd(x1, x2)

\* C13 witness: in its second update the first particle passed the second,
\* 5/2 against 2, and the merged particle of mass 3 is at 9/4
C13_Witness ==
    /\ config = << Particle(1, 1, 1), Particle(2, 0, 2) >>
    /\ call = "update"
    /\ nUpdates = 2
    /\ hasCollided
    /\ Len(particles) = 1
    /\ particles[1].mass = F(3)
    /\ particles[1].x_pos = [m |-> 9, e |-> -2]

\* C14: an update(dt) call in which no merge fires changes nothing but the
\* positions, each by velocity * dt: count, masses, velocities, the collided
\* flag and the snapshot are kept, in the collided state too.
C14_Integrator ==
    \A dt \in Dts :
        LET s2 == update(Sim, dt)
        IN  s2.hasCollided = hasCollided =>
                /\ Len(s2.particles) = Len(particles)
                /\ s2.initial = initial
                /\ \A i \in 1..Len(particles) :
                      /\ s2.particles[i].mass = particles[i].mass
                      /\ s2.particles[i].velocity = particles[i].velocity
                      /\ s2.particles[i].x_pos = Moved(particles[i], dt)

\* C14 witness: a pair installed on the same spot with velocity 1 merged at 2
\* in its first update and the merged particle has moved on to 3
C14_Witness ==
    /\ config = << Particle(1, 1, 1), Particle(1, 1, 1) >>
    /\ call = "update"
    /\ nUpdates = 2
    /\ hasCollided
    /\ Len(particles) = 1
    /\ particles[1].x_pos = F(3)

\* C15: setInitial(c), called in any state, leaves particles and the
\* snapshot equal to c and collided false; the detector is armed (an update
\* merges a pair of c that has met), and reset() then gives c.
C15_SetInitialConfigures ==
    call = "setInitial" =>
        /\ particles = config
        /\ initial = config
        /\ ~hasCollided
        /\ reset(Sim).particles = config
        /\ (Len(config) = 2 /\ ~LeftOf(config)) => update(Sim, F(0)).hasCollided

\* C15 witness: setInitial has just installed a pair that has already met
C15_Witness ==
    /\ call = "setInitial"
    /\ config = << Particle(1, 0, 1), Particle(2, 1, 0) >>
    /\ particles = config
    /\ ~hasCollided

\* C16: only setInitial changes the snapshot: addParticle, update, reset and
\* getParticles leave it as it is, it equals the argument of the last
\* setInitial in every state, and a second reset changes nothing.
C16_SnapshotKept ==
    /\ [][call' # "setInitial" => initial' = initial]_vars
    /\ [](initial = config /\ reset(reset(Sim)) = reset(Sim))

\* C16 witness: the particles of Scenario A have merged and moved on; the
\* snapshot is still Scenario A
C16_Witness ==
    /\ config = ScenarioA
    /\ initial = ScenarioA
    /\ call = "update"
    /\ nUpdates = 3
    /\ hasCollided
    /\ Len(particles) = 1
    /\ particles[1].x_pos # F(20)

\* C17: every particle has mass > 0 in every state (all particles given to
\* setInitial and addParticle have), so the divisor of the merge is not zero.
C17_PositiveMass ==
    /\ \A i \in 1..Len(particles) : particles[i].mass.m > 0
    /\ Len(particles) >= 2 => FAdd(particles[1].mass, particles[2].mass).m > 0

\* C17 witness: a merged particle of mass 3
C17_Witness ==
    /\ hasCollided
    /\ Len(particles) = 1
    /\ particles[1].mass = F(3)
    /\ call = "getParticles"

\* C18: under setInitial, update and reset, collided is true exactly when
\* there is one particle.
C18_FlagMatchesLength == hasCollided <=> Len(particles) = 1

\* C18 witness: collided and one particle, at 2, after three updates of a
\* pair that started at 1 and 2
C18_Witness ==
    /\ hasCollided
    /\ Len(particles) = 1
    /\ call = "update"
    /\ nUpdates = 3
    /\ config = << Particle(1, 1, 1), Particle(1, 0, 2) >>
    /\ particles[1].x_pos = F(2)

\* C19: under setInitial, update(dt >= 0) and reset, the merged particle has
\* the mass and the velocity that the configuration alone gives, whatever
\* the dt of the updates were.
C19_MergedFromConfigOnly ==
    (hasCollided /\ config # << >>) =>
        /\ Len(particles) = 1
        /\ particles[1].mass = FAdd(config[1].mass, config[2].mass)
        /\ particles[1].velocity = handleCollision(config[1], config[2])

\* C19 witness: Scenario A merged at 45/2 (after 1, 1/2 and 1 second) with
\* the velocity it has when it merges at 20
C19_Witness ==
    /\ config = ScenarioA
    /\ hasCollided
    /\ Len(particles) = 1
    /\ particles[1].x_pos = [m |-> 45, e |-> -1]
    /\ particles[1].velocity = [m |-> 14979657, e |-> -21]

====
